---- MODULE Spec2Model ----
(***************************************************************************)
(* Model of src/index.ts: the InterceptorManager, the request pipeline of  *)
(* Axiosse.request (interceptor chains around one fetch call), the reader  *)
(* loops of Axiosse.stream and Axiosse.streamGenerator, and safeParseJSON. *)
(* The event-based lazy sequence, of which src/ holds no code, is modelled *)
(* from section 4.4(b) of the specification.                               *)
(*                                                                         *)
(* One client instance is modelled with one call in flight at a time.  The *)
(* interceptor managers are shared by all calls: interceptors are          *)
(* registered between calls and may be ejected at any moment, also while a *)
(* call is in flight.                                                      *)
(***************************************************************************)
EXTENDS Naturals, Sequences, FiniteSets

\* ------------------------------------------------------------------ bounds

\* Largest number of use() calls made on the client (both managers together).
MaxUse == 2

\* Largest number of chunks one response byte stream delivers.
MaxChunks == 2

\* The timeout value, in ms, a caller may configure (0 stands for "not set").
Timeout == 50

\* Largest number of entries of a query parameter mapping.
MaxParams == 2

\* Largest number of symbols of a text handed to safeParseJSON.
MaxText == 4

\* Largest number of messages that arrive on one event connection.
MaxMessages == 4

\* ------------------------------------------------------------------ state

VARIABLES
    requestInterceptors,      \* handlers array of the request manager
    responseInterceptors,     \* handlers array of the response manager
    ejected,                  \* history: the interceptors (manager, id) eject() has returned for
    issued,                   \* history: per manager, the identifiers use() has returned
    pc,                       \* position of the call in flight
    api,                      \* "request", "stream" or "generator": the method that was called
    config,                   \* the caller's configuration object, as the call left it
    passed,                   \* history: the caller's configuration object before the call
    requestInterceptorChain,  \* the call's snapshot of the request handlers
    responseInterceptorChain, \* the call's snapshot of the response handlers
    idx,                      \* index of the chain element being attached/run
    half,                     \* "then" or "catch": which reaction of the element is next
    promise,                  \* state of the promise chain built so far
    timerArmed,               \* setTimeout(() => controller.abort(), timeout) is pending
    controllerAborted,        \* controller.abort() has run
    callerAborted,            \* the caller has aborted the token it supplied
    fetchSignal,              \* "caller", "controller" or "none": what fetch observes
    abortedBy,                \* history: which source made the transport call abort
    fetched,                  \* history: the fetch calls of this call, by address
    transportResult,          \* history: how the transport step settled
    log,                      \* history: the handler invocations of this call
    staleAtStart,             \* history: the pairs already ejected when the call started
    arrived,                  \* history: the chunks reader.read() has returned
    delivered,                \* history: the arguments callback() was invoked with
    pending,                  \* TextDecoder state: a lead byte awaits its trail byte
    yielded,                  \* history: the values streamGenerator() has yielded
    kept,                     \* history: chunks read and callback arguments of a stream() call
    jsonString,               \* the first argument of a safeParseJSON call
    returned,                 \* what that safeParseJSON call returned
    connection,               \* "open" or "closed": the persistent event connection
    queue,                    \* the internal queue of the event-based lazy sequence
    sequenceEnded,            \* the event-based lazy sequence has reported completion
    queued,                   \* history: the messages put on the queue, in arrival order
    pulled                    \* history: the entries the event-based sequence has yielded

vars == << requestInterceptors, responseInterceptors, ejected, pc, api, config,
           requestInterceptorChain, responseInterceptorChain, idx, half, promise,
           timerArmed, controllerAborted, callerAborted, fetchSignal, abortedBy,
           fetched, transportResult, log, staleAtStart, arrived, delivered, pending,
           passed, yielded, kept, issued, jsonString, returned, connection, queue,
           sequenceEnded, queued, pulled >>

managerVars == << requestInterceptors, responseInterceptors, ejected, issued >>

transportVars == << timerArmed, controllerAborted, callerAborted, fetchSignal, abortedBy,
                    fetched, transportResult >>

streamVars == << arrived, delivered, pending, yielded, kept >>

utilVars == << jsonString, returned >>

eventVars == << connection, queue, sequenceEnded, queued, pulled >>

callVars == << api, config, passed, requestInterceptorChain, responseInterceptorChain,
              staleAtStart >>

\* ------------------------------------------------------- interceptor manager

\* What a caller-supplied handler function does with its argument:
\*   "none"   the handler is undefined (not supplied to use())
\*   "pass"   returns (a transformation of) its argument
\*   "raise"  throws an error of its own
\*   "reject" returns Promise.reject(argument)
\*   "later"  an async function: returns a promise that is fulfilled with (a
\*            transformation of) its argument once the function has completed
Fulfilled == {"pass", "raise"}

Rejected == {"none", "reject"}

\* The value eject() leaves in a slot of the handlers array.
Null == [fulfilled |-> "null", rejected |-> "null"]

Managers == {"request", "response"}

Use(handlers, fulfilled, rejected) ==
    Append(handlers, [fulfilled |-> fulfilled, rejected |-> rejected])

\* The identifier use() returns, given the array after the push.
UseId(handlers) == Len(handlers) - 1

\* eject() that forgets to clear the slot.
EjectNothing(handlers, id) == handlers

\* eject() that removes the slot from the array, so that later slots move down.
EjectSplice(handlers, id) ==
    IF id + 1 \in DOMAIN handlers
    THEN SubSeq(handlers, 1, id) \o SubSeq(handlers, id + 2, Len(handlers))
    ELSE handlers

Eject(handlers, id) ==
    IF id + 1 \in DOMAIN handlers /\ handlers[id + 1] # Null
    THEN [handlers EXCEPT ![id + 1] = Null]
    ELSE handlers

RECURSIVE ForEachFrom(_, _)
ForEachFrom(handlers, i) ==
    IF i > Len(handlers) THEN << >>
    ELSE IF handlers[i] # Null
         THEN << [id |-> i - 1, handler |-> handlers[i]] >> \o ForEachFrom(handlers, i + 1)
         ELSE ForEachFrom(handlers, i + 1)

RECURSIVE Reversed(_)
Reversed(seq) == IF seq = << >> THEN << >> ELSE Append(Reversed(Tail(seq)), Head(seq))

\* forEach that walks the array from its end.
ForEachBackwards(handlers) == Reversed(ForEachFrom(handlers, 1))

\* The entries forEach passes to its visitor, in the order it passes them.
ForEach(handlers) == ForEachFrom(handlers, 1)

\* ------------------------------------------------------------ chains

\* A chain element: one function of one interceptor.
Element(mgr, visited, slot) ==
    [mgr |-> mgr, id |-> visited.id, slot |-> slot,
     fn |-> IF slot = "fulfilled" THEN visited.handler.fulfilled ELSE visited.handler.rejected]

\* The request chain built with push instead of unshift.
RECURSIVE RequestChainPushed(_, _)
RequestChainPushed(visits, chain) ==
    IF visits = << >> THEN chain
    ELSE RequestChainPushed(Tail(visits),
            chain \o << Element("request", Head(visits), "fulfilled"),
                        Element("request", Head(visits), "rejected") >>)

RECURSIVE RequestChainOf(_, _)
RequestChainOf(visits, chain) ==
    IF visits = << >> THEN chain
    ELSE RequestChainOf(Tail(visits),
            << Element("request", Head(visits), "fulfilled"),
               Element("request", Head(visits), "rejected") >> \o chain)

\* requestInterceptorChain after the forEach that unshifts each pair.
RequestChain(handlers) == RequestChainOf(ForEach(handlers), << >>)

RECURSIVE ResponseChainOf(_, _)
ResponseChainOf(visits, chain) ==
    IF visits = << >> THEN chain
    ELSE ResponseChainOf(Tail(visits),
            chain \o << Element("response", Head(visits), "fulfilled"),
                        Element("response", Head(visits), "rejected") >>)

\* responseInterceptorChain after the forEach that pushes each pair.
ResponseChain(handlers) == ResponseChainOf(ForEach(handlers), << >>)

\* ------------------------------------------------------------ values

\* Who produced a value flowing through the promise chain.
Src(mgr, id, slot) == [mgr |-> mgr, id |-> id, slot |-> slot]

PipelineSrc == Src("pipeline", 0, "none")

TransportSrc == Src("transport", 0, "none")

StreamSrc == Src("stream", 0, "none")

\* { ...config, url: requestUrl, fetchConfig }
InitialConfig == [kind |-> "config", by |-> PipelineSrc, msg |-> "", data |-> "none"]

Envelope(data) == [kind |-> "envelope", by |-> TransportSrc, msg |-> "", data |-> data]

Failure(by, msg) == [kind |-> "error", by |-> by, msg |-> msg, data |-> "none"]

Resolved(v) == [status |-> "fulfilled", value |-> v]

RejectedWith(v) == [status |-> "rejected", value |-> v]

\* A promise that has adopted the promise an async handler returned: it will
\* be fulfilled with v when that handler completes.
Pending(v) == [status |-> "pending", value |-> v]

\* The transport step has not settled (yet).
NoResult == [status |-> "none", value |-> InitialConfig]

\* The outcome of calling handler function h with argument v.
Invoke(h, v) ==
    CASE h.fn = "pass"   -> Resolved([v EXCEPT !.by = Src(h.mgr, h.id, h.slot)])
      [] h.fn = "raise"  -> RejectedWith(Failure(Src(h.mgr, h.id, h.slot), "raised"))
      [] h.fn = "reject" -> RejectedWith(v)
      [] h.fn = "later"  -> Pending([v EXCEPT !.by = Src(h.mgr, h.id, h.slot)])

\* A pipeline whose steps do not wait for the promise they follow.
ReadyAlways(p) == TRUE

\* A reaction attached to a promise runs once that promise has settled.
Ready(p) == p.status # "pending"

\* promise.then(interceptor): does the reaction call the function?
ThenCalls(h, p) == p.status = "fulfilled" /\ h.fn # "none"

\* A chain whose catch reactions were never attached.
CatchNever(h, p) == FALSE

\* .catch(interceptor): does the reaction call the function?
CatchCalls(h, p) == p.status = "rejected" /\ h.fn # "none"

\* `Request aborted${timeout ? ' due to timeout' : ''}`
AbortMessage(timeout) ==
    IF timeout # 0 THEN "Request aborted due to timeout" ELSE "Request aborted"

\* config.signal || controller.signal, config being the value that reached the step
FetchSignal(v, cfg) ==
    IF v.kind = "config" /\ cfg.signal THEN "caller" ELSE "controller"

\* ------------------------------------------------------------ address and body

\* Strings are sequences of characters.  An escape sequence of
\* encodeURIComponent is written as one element: "%3F" stands for the three
\* characters %, 3, F.
Undefined == << "undefined" >>

\* encodeURIComponent that escapes nothing.
EncodesNothing(c) == << c >>

\* encodeURIComponent of one character: letters are kept, reserved characters
\* and the space are escaped.
EncodeChar(c) ==
    CASE c = "?" -> << "%3F" >>
      [] c = "&" -> << "%26" >>
      [] c = "=" -> << "%3D" >>
      [] c = " " -> << "%20" >>
      [] OTHER -> << c >>

RECURSIVE EncodeURIComponent(_)
EncodeURIComponent(str) ==
    IF str = << >> THEN << >>
    ELSE EncodeChar(Head(str)) \o EncodeURIComponent(Tail(str))

\* Object.entries(params).map(([key, value]) => `${enc(key)}=${enc(value)}`).join('&')
RECURSIVE QueryString(_)
QueryString(entries) ==
    IF entries = << >> THEN << >>
    ELSE LET e == Head(entries)
             pair == EncodeURIComponent(e.key) \o << "=" >> \o EncodeURIComponent(e.value)
         IN IF Tail(entries) = << >> THEN pair
            ELSE pair \o << "&" >> \o QueryString(Tail(entries))

\* str.includes(c)
Includes(str, c) == \E i \in DOMAIN str : str[i] = c

\* requestUrl: the address, with the query string when params is given.
RequestUrl(cfg) ==
    IF cfg.params
    THEN cfg.address \o << IF Includes(cfg.address, "?") THEN "&" ELSE "?" >>
                     \o QueryString(cfg.query)
    ELSE cfg.address

\* The kinds of value a caller passes as data: nothing, the empty string, a
\* non-empty string, a FormData, a Blob, an ArrayBuffer, a plain object.
Payloads == {"undefined", "empty", "string", "FormData", "Blob", "ArrayBuffer", "object"}

\* if (data)
Truthy(data) == data \notin {"undefined", "empty"}

\* typeof data
TypeOf(data) ==
    CASE data = "undefined" -> "undefined"
      [] data \in {"empty", "string"} -> "string"
      [] OTHER -> "object"

\* JSON.stringify(data): the members of a plain object; a Blob or an
\* ArrayBuffer has no enumerable member and comes out as "{}".
Stringify(data) == IF data = "object" THEN "{members}" ELSE "{}"

\* Is the payload serialized: typeof data === 'object' && !(data instanceof FormData)
Serialized(data) == TypeOf(data) = "object" /\ data # "FormData"

\* fetchConfig.body and the Content-Type header of fetchConfig.headers, for a
\* caller that sets no header itself.
FetchConfig(cfg) ==
    IF Truthy(cfg.data)
    THEN IF Serialized(cfg.data)
         THEN [body |-> Stringify(cfg.data), contentType |-> "application/json"]
         ELSE [body |-> cfg.data, contentType |-> "none"]
    ELSE [body |-> "undefined", contentType |-> "none"]

\* config.url of the value that reached the transport step
FetchUrl(v, cfg) ==
    IF v.kind = "config" /\ cfg.url THEN RequestUrl(cfg) ELSE Undefined

\* fetch(config.url, { ...config.fetchConfig, signal }) for the value that
\* reached the transport step.
FetchCall(v, cfg) ==
    LET fc == IF v.kind = "config" THEN FetchConfig(cfg)
              ELSE [body |-> "undefined", contentType |-> "none"]
    IN [url |-> FetchUrl(v, cfg), body |-> fc.body, contentType |-> fc.contentType]

\* ------------------------------------------------------------ safeParseJSON

\* The symbols of the texts handed to safeParseJSON: brackets, the dollar
\* sign, a number, the comma, a member key with its colon ("k:" stands for
\* "k" followed by a colon) and the line feed "nl".
Symbols == {"{", "}", "[", "]", "$", "1", ",", "k:", "nl"}

Texts == UNION { [1 .. n -> Symbols] : n \in 0 .. MaxText }

\* What a caller passes as jsonString: a text, or a value that is no string.
JsonInputs ==
    [type : {"string"}, text : Texts]
    \cup [type : {"number", "object", "undefined"}, text : {<< >>}]

\* reg.test(jsonString) for /^[{$$].*[}$$]$/: the first character is one of
\* { $, the last one of } $, and no line feed lies between them.
RegTest(text) ==
    /\ Len(text) >= 2
    /\ text[1] \in {"{", "$"}
    /\ text[Len(text)] \in {"}", "$"}
    /\ \A i \in 2 .. Len(text) - 1 : text[i] # "nl"

\* JSON white space is skipped between the symbols of a text.
RECURSIVE SkipSpace(_)
SkipSpace(text) ==
    IF text # << >> /\ Head(text) = "nl" THEN SkipSpace(Tail(text)) ELSE text

SyntaxError == [ok |-> FALSE, value |-> [type |-> "none", items |-> << >>], rest |-> << >>]

Parsed(type, items, rest) ==
    [ok |-> TRUE, value |-> [type |-> type, items |-> items], rest |-> rest]

\* The JSON grammar: a value is a number, an array of values or an object of
\* members; each operator returns the value read and the text left over.
RECURSIVE ParseValue(_), ParseElements(_, _), ParseMembers(_, _)
ParseValue(text) ==
    LET t == SkipSpace(text)
    IN IF t = << >> THEN SyntaxError
       ELSE CASE Head(t) = "1" -> Parsed("number", << >>, Tail(t))
              [] Head(t) = "[" ->
                   LET u == SkipSpace(Tail(t))
                   IN IF u # << >> /\ Head(u) = "]"
                      THEN Parsed("array", << >>, Tail(u))
                      ELSE ParseElements(u, << >>)
              [] Head(t) = "{" ->
                   LET u == SkipSpace(Tail(t))
                   IN IF u # << >> /\ Head(u) = "}"
                      THEN Parsed("object", << >>, Tail(u))
                      ELSE ParseMembers(u, << >>)
              [] OTHER -> SyntaxError

ParseElements(text, items) ==
    LET v == ParseValue(text)
        t == SkipSpace(v.rest)
    IN IF ~v.ok \/ t = << >> THEN SyntaxError
       ELSE CASE Head(t) = "]" -> Parsed("array", Append(items, v.value), Tail(t))
              [] Head(t) = "," -> ParseElements(Tail(t), Append(items, v.value))
              [] OTHER -> SyntaxError

ParseMembers(text, items) ==
    LET k == SkipSpace(text)
    IN IF k = << >> \/ Head(k) # "k:" THEN SyntaxError
       ELSE LET v == ParseValue(Tail(k))
                t == SkipSpace(v.rest)
            IN IF ~v.ok \/ t = << >> THEN SyntaxError
               ELSE CASE Head(t) = "}" -> Parsed("object", Append(items, v.value), Tail(t))
                      [] Head(t) = "," -> ParseMembers(Tail(t), Append(items, v.value))
                      [] OTHER -> SyntaxError

\* JSON.parse(text): the value, or a SyntaxError when the text is no JSON text.
JsonParse(text) ==
    LET v == ParseValue(text)
    IN IF v.ok /\ SkipSpace(v.rest) = << >> THEN v ELSE SyntaxError

DefaultValue == [kind |-> "default", value |-> [type |-> "none", items |-> << >>]]

\* safeParseJSON(jsonString, defaultValue)
SafeParseJSON(input) ==
    IF input.type # "string" \/ input.text = << >> \/ ~RegTest(input.text)
    THEN DefaultValue
    ELSE LET v == JsonParse(input.text)
         IN IF v.ok THEN [kind |-> "value", value |-> v.value] ELSE DefaultValue

\* ------------------------------------------------------------ decoder

\* Bytes of a response body: "a" a one-byte character, "L" the lead byte and
\* "T" the trail byte of a two-byte character.
Chunks == { << "L" >>, << "T", "a" >> }

\* decoder.decode(value, { stream: true }): the characters decoded from one
\* chunk and the decoder state left behind.
RECURSIVE Decode(_, _)
Decode(pend, bytes) ==
    IF bytes = << >> THEN [text |-> << >>, pending |-> pend]
    ELSE LET b == Head(bytes)
             rest == Tail(bytes)
         IN IF pend
            THEN IF b = "T"
                 THEN LET r == Decode(FALSE, rest)
                      IN [r EXCEPT !.text = << "e'" >> \o r.text]
                 ELSE LET r == Decode(FALSE, bytes)
                      IN [r EXCEPT !.text = << "?" >> \o r.text]
            ELSE CASE b = "a" -> LET r == Decode(FALSE, rest)
                                 IN [r EXCEPT !.text = << "a" >> \o r.text]
                   [] b = "L" -> Decode(TRUE, rest)
                   [] b = "T" -> LET r == Decode(FALSE, rest)
                                 IN [r EXCEPT !.text = << "?" >> \o r.text]

\* ------------------------------------------------------------ Init

\* The argument and the result of a safeParseJSON call not made yet.
NoInput == [type |-> "undefined", text |-> << >>]

NotCalled == [kind |-> "none", value |-> [type |-> "none", items |-> << >>]]

\* What a caller that has consumed no stream() call holds.
NoChunks == [arrived |-> << >>, delivered |-> << >>]

NoConfig == [url |-> FALSE, params |-> FALSE, timeout |-> 0, signal |-> FALSE,
             responseType |-> "none", method |-> "GET", address |-> << >>,
             query |-> << >>, data |-> "undefined"]

\* The configurations callers pass: with an address, any combination of timeout
\* and cancellation token; without one, with and without query parameters.
Configs ==
    [url : {TRUE}, params : {FALSE}, timeout : {0, Timeout}, signal : BOOLEAN,
     responseType : {"json"}, method : {"GET"}, address : {<< "a" >>},
     query : {<< >>}, data : {"undefined"}]
    \cup [url : {FALSE}, params : BOOLEAN, timeout : {0}, signal : {FALSE},
          responseType : {"json"}, method : {"GET"}, address : {<< >>},
          query : {<< >>}, data : {"undefined"}]

\* The methods of the shorthand verbs.
Methods == {"GET", "POST"}

\* Addresses without and with a query string of their own.
Addresses == { << "a" >>, << "a", "?", "b" >> }

\* Keys and values of query parameters, with and without reserved characters.
Keys == { << "k" >>, << "k", "&" >> }

Values == { << "v" >>, << "?", "=", " " >> }

\* The entry lists of parameter mappings: every key occurs once.
Entries ==
    { q \in UNION { [1 .. n -> [key : Keys, value : Values]] : n \in 0 .. MaxParams } :
        \A i, j \in DOMAIN q : i # j => q[i].key # q[j].key }

\* The configurations of callers that set an address, a method, a payload and
\* possibly query parameters.
InputConfigs ==
    { cfg \in [url : {TRUE}, params : BOOLEAN, timeout : {0}, signal : {FALSE},
               responseType : {"json"}, method : Methods, address : Addresses,
               query : Entries, data : Payloads] :
        ~cfg.params => cfg.query = << >> }

ClientInit ==
    /\ requestInterceptors = << >>
    /\ responseInterceptors = << >>
    /\ ejected = {}
    /\ issued = [mgr \in Managers |-> << >>]
    /\ pc = "idle"
    /\ api = "none"
    /\ config = NoConfig
    /\ passed = NoConfig
    /\ requestInterceptorChain = << >>
    /\ responseInterceptorChain = << >>
    /\ idx = 0
    /\ half = "then"
    /\ promise = Resolved(InitialConfig)
    /\ timerArmed = FALSE
    /\ controllerAborted = FALSE
    /\ callerAborted = FALSE
    /\ fetchSignal = "none"
    /\ abortedBy = "none"
    /\ fetched = << >>
    /\ transportResult = NoResult
    /\ log = << >>
    /\ staleAtStart = {}
    /\ arrived = << >>
    /\ delivered = << >>
    /\ pending = FALSE
    /\ yielded = << >>
    /\ kept = NoChunks

\* No call of safeParseJSON has been made.
UtilInit ==
    /\ jsonString = NoInput
    /\ returned = NotCalled

\* The event connection is open and nothing has arrived on it.
EventInit ==
    /\ connection = "open"
    /\ queue = << >>
    /\ sequenceEnded = FALSE
    /\ queued = << >>
    /\ pulled = << >>

Init == ClientInit /\ UtilInit /\ EventInit

\* ------------------------------------------------------------ manager actions

\* The promise of the call has settled (or request() has thrown) and the
\* caller has not yet taken the outcome.
Returned == pc \in {"done", "threw"} /\ Ready(promise)

Handlers(mgr) == IF mgr = "request" THEN requestInterceptors ELSE responseInterceptors

\* interceptors.request.use / interceptors.response.use
UseInterceptor(mgr, fulfilled, rejected) ==
    /\ pc = "idle"
    /\ Len(requestInterceptors) + Len(responseInterceptors) < MaxUse
    /\ IF mgr = "request"
       THEN /\ requestInterceptors' = Use(requestInterceptors, fulfilled, rejected)
            /\ issued' = [issued EXCEPT !.request = Append(@, UseId(requestInterceptors'))]
            /\ UNCHANGED responseInterceptors
       ELSE /\ responseInterceptors' = Use(responseInterceptors, fulfilled, rejected)
            /\ issued' = [issued EXCEPT !.response = Append(@, UseId(responseInterceptors'))]
            /\ UNCHANGED requestInterceptors
    /\ UNCHANGED << ejected, pc, callVars, idx, half, promise, transportVars, log, streamVars >>
    /\ UNCHANGED << utilVars, eventVars >>

\* interceptors.request.eject / interceptors.response.eject, with an issued
\* identifier or the first one not issued yet.
EjectInterceptor(mgr, id) ==
    /\ ~Returned
    /\ id <= Len(Handlers(mgr))
    /\ IF mgr = "request"
       THEN /\ requestInterceptors' = Eject(requestInterceptors, id)
            /\ UNCHANGED responseInterceptors
       ELSE /\ responseInterceptors' = Eject(responseInterceptors, id)
            /\ UNCHANGED requestInterceptors
    /\ ejected' = IF id < Len(Handlers(mgr)) THEN ejected \cup {<< mgr, id >>} ELSE ejected
    /\ UNCHANGED << issued, pc, callVars, idx, half, promise, transportVars, log, streamVars >>
    /\ UNCHANGED << utilVars, eventVars >>

\* ------------------------------------------------------------ request()

\* The synchronous part of request(): the address with its query string, the
\* two chain snapshots, and the promise chain attached to them.
StartCall(method, cfg) ==
    /\ pc = "idle"
    /\ api' = method
    /\ passed' = cfg
    /\ config' = IF method \in {"stream", "generator"}
                 THEN [cfg EXCEPT !.responseType = "stream"] ELSE cfg
    /\ log' = << >>
    /\ staleAtStart' = ejected
    /\ UNCHANGED managerVars
    /\ timerArmed' = FALSE
    /\ controllerAborted' = FALSE
    /\ callerAborted' = FALSE
    /\ fetchSignal' = "none"
    /\ abortedBy' = "none"
    /\ fetched' = << >>
    /\ transportResult' = NoResult
    /\ arrived' = << >>
    /\ delivered' = << >>
    /\ pending' = FALSE
    /\ yielded' = << >>
    /\ UNCHANGED kept
    /\ half' = "then"
    /\ promise' = Resolved(InitialConfig)
    /\ IF cfg.params /\ ~cfg.url
       THEN \* url.includes('?') on an absent url throws out of request()
            /\ pc' = "threw"
            /\ idx' = 0
            /\ requestInterceptorChain' = << >>
            /\ responseInterceptorChain' = << >>
       ELSE /\ requestInterceptorChain' = RequestChain(requestInterceptors)
            /\ responseInterceptorChain' = ResponseChain(responseInterceptors)
            /\ idx' = 1
            /\ pc' = IF RequestChain(requestInterceptors) = << >> THEN "transport" ELSE "req"
    /\ UNCHANGED << utilVars, eventVars >>

Request(cfg) == StartCall("request", cfg)

Stream(cfg) == StartCall("stream", cfg)

\* The first next() on the generator streamGenerator(cfg) returned: its body
\* runs up to the await of request().
StreamGenerator(cfg) == StartCall("generator", cfg)

\* ------------------------------------------------------------ promise chain

Chain == IF pc = "req" THEN requestInterceptorChain ELSE responseInterceptorChain

\* One handler invocation, as the history records it.
Event(h, on, v) ==
    [mgr |-> h.mgr, id |-> h.id, slot |-> h.slot, on |-> on, arg |-> v]

\* Where the promise chain continues after the response chain.
AfterResponse ==
    CASE api = "stream" -> "consume"
      [] api = "generator" -> "await"
      [] OTHER -> "done"

\* Where the promise chain continues after the transport step.
AfterTransport == IF responseInterceptorChain = << >> THEN AfterResponse ELSE "res"

\* The reaction attached by promise.then(interceptor).
ChainThen ==
    /\ pc \in {"req", "res"}
    /\ Ready(promise)
    /\ half = "then"
    /\ LET h == Chain[idx]
       IN IF ThenCalls(h, promise)
          THEN /\ promise' = Invoke(h, promise.value)
               /\ log' = Append(log, Event(h, "then", promise.value))
          ELSE UNCHANGED << promise, log >>
    /\ half' = "catch"
    /\ UNCHANGED << managerVars, pc, callVars, idx, transportVars, streamVars >>
    /\ UNCHANGED << utilVars, eventVars >>

\* The reaction attached by .catch(interceptor), and the move to the next
\* element of the chain.
ChainCatch ==
    /\ pc \in {"req", "res"}
    /\ Ready(promise)
    /\ half = "catch"
    /\ LET h == Chain[idx]
       IN IF CatchCalls(h, promise)
          THEN /\ promise' = Invoke(h, promise.value)
               /\ log' = Append(log, Event(h, "catch", promise.value))
          ELSE UNCHANGED << promise, log >>
    /\ half' = "then"
    /\ IF idx < Len(Chain)
       THEN /\ idx' = idx + 1
            /\ UNCHANGED pc
       ELSE /\ idx' = 1
            /\ pc' = IF pc = "req" THEN "transport" ELSE AfterResponse
    /\ UNCHANGED << managerVars, callVars, transportVars, streamVars >>
    /\ UNCHANGED << utilVars, eventVars >>

\* The async handler whose promise the chain has adopted completes.
HandlerSettles ==
    /\ promise.status = "pending"
    /\ promise' = Resolved(promise.value)
    /\ UNCHANGED << managerVars, pc, callVars, idx, half, transportVars, log, streamVars,
                    utilVars, eventVars >>

\* ------------------------------------------------------------ transport step

\* A transport step that never sets the timer.
TimerNeverSet(timeout) == FALSE

\* if (timeout) setTimeout(() => controller.abort(), timeout)
TimerSet(timeout) == timeout # 0

\* The start of the async function attached after the request chain: it runs
\* only when the chain so far is fulfilled, and then calls fetch.
TransportStart ==
    /\ pc = "transport"
    /\ Ready(promise)
    /\ IF promise.status = "rejected"
       THEN /\ pc' = AfterTransport
            /\ UNCHANGED transportVars
       ELSE /\ fetchSignal' = FetchSignal(promise.value, config)
            /\ timerArmed' = TimerSet(config.timeout)
            /\ fetched' = Append(fetched, FetchCall(promise.value, config))
            /\ pc' = "fetching"
            /\ UNCHANGED << controllerAborted, callerAborted, abortedBy, transportResult >>
    /\ UNCHANGED << managerVars, callVars, idx, half, promise, log, streamVars >>
    /\ UNCHANGED << utilVars, eventVars >>

\* fetch resolves with a response.
FetchResolve ==
    /\ pc = "fetching"
    /\ pc' = "decoding"
    /\ UNCHANGED << managerVars, callVars, idx, half, promise, transportVars, log, streamVars >>
    /\ UNCHANGED << utilVars, eventVars >>

\* fetch rejects with a network error, which the catch block rethrows.
FetchFail ==
    /\ pc = "fetching"
    /\ promise' = RejectedWith(Failure(TransportSrc, "network"))
    /\ transportResult' = promise'
    /\ pc' = AfterTransport
    /\ UNCHANGED << managerVars, callVars, idx, half, timerArmed, controllerAborted,
                    callerAborted, fetchSignal, abortedBy, fetched, log, streamVars >>
    /\ UNCHANGED << utilVars, eventVars >>

\* The switch on responseType and the envelope returned; a body that does not
\* decode makes response.json() reject, which the catch block rethrows.
DecodeBody(outcome) ==
    /\ pc = "decoding"
    /\ IF config.responseType = "stream"
       THEN outcome \in {"stream", "null"}
       ELSE outcome \in {"json", "fail"}
    /\ promise' = IF outcome = "fail"
                  THEN RejectedWith(Failure(TransportSrc, "decode"))
                  ELSE Resolved(Envelope(outcome))
    /\ transportResult' = promise'
    /\ pc' = AfterTransport
    /\ UNCHANGED << managerVars, callVars, idx, half, timerArmed, controllerAborted,
                    callerAborted, fetchSignal, abortedBy, fetched, log, streamVars >>
    /\ UNCHANGED << utilVars, eventVars >>

\* The timer set by the transport step fires: controller.abort().  Firings
\* after the step has settled abort a controller nothing observes and are left out.
TimerFire ==
    /\ pc \in {"fetching", "decoding"}
    /\ timerArmed
    /\ timerArmed' = FALSE
    /\ controllerAborted' = TRUE
    /\ UNCHANGED << managerVars, pc, callVars, idx, half, promise, callerAborted,
                    fetchSignal, abortedBy, fetched, transportResult, log, streamVars >>
    /\ UNCHANGED << utilVars, eventVars >>

\* The caller aborts the token it passed as config.signal.  Only the transport
\* step observes the token, so aborts after that step has settled are left out.
CallerAbort ==
    /\ pc \in {"req", "transport", "fetching", "decoding"}
    /\ config.signal
    /\ ~callerAborted
    /\ callerAborted' = TRUE
    /\ UNCHANGED << managerVars, pc, callVars, idx, half, promise, timerArmed,
                    controllerAborted, fetchSignal, abortedBy, fetched, transportResult,
                    log, streamVars >>
    /\ UNCHANGED << utilVars, eventVars >>

\* The signal fetch was given is aborted.
SignalAborted ==
    \/ fetchSignal = "controller" /\ controllerAborted
    \/ fetchSignal = "caller" /\ callerAborted

\* fetch (or the body read that follows it) rejects with an AbortError, which
\* the catch block turns into the 'Request aborted' error.
AbortObserved ==
    /\ \/ pc = "fetching"
       \/ pc = "decoding" /\ config.responseType # "stream"
    /\ SignalAborted
    /\ promise' = RejectedWith(Failure(TransportSrc, AbortMessage(config.timeout)))
    /\ transportResult' = promise'
    /\ abortedBy' = IF fetchSignal = "controller" THEN "timer" ELSE "caller"
    /\ pc' = AfterTransport
    /\ UNCHANGED << managerVars, callVars, idx, half, timerArmed, controllerAborted,
                    callerAborted, fetchSignal, fetched, log, streamVars >>
    /\ UNCHANGED << utilVars, eventVars >>

\* ------------------------------------------------------------ stream()

\* Is response.data truthy?
HasData(v) == v.data \notin {"none", "null"}

\* The start of the async function stream() attaches to the request promise.
Consume ==
    /\ pc = "consume"
    /\ Ready(promise)
    /\ pc' = IF promise.status = "fulfilled" /\ HasData(promise.value)
             THEN "reading" ELSE "done"
    /\ UNCHANGED << managerVars, callVars, idx, half, promise, transportVars, log, streamVars >>
    /\ UNCHANGED << utilVars, eventVars >>

\* A loop that skips chunks that decode to nothing.
CallsBackNonEmpty(text) == text # << >>

\* Does the loop hand the decoded chunk to the callback?
CallsBack(text) == TRUE

\* reader.read() resolves with a chunk: decode it and call the callback.
ReadChunk(value) ==
    /\ pc = "reading"
    /\ Len(arrived) < MaxChunks
    /\ arrived' = Append(arrived, value)
    /\ LET d == Decode(pending, value)
       IN /\ pending' = d.pending
          /\ delivered' = IF CallsBack(d.text) THEN Append(delivered, d.text) ELSE delivered
    /\ UNCHANGED << managerVars, pc, callVars, idx, half, promise, transportVars, log,
                    yielded, kept >>
    /\ UNCHANGED << utilVars, eventVars >>

\* reader.read() resolves with done: the loop ends and the response is returned.
ReadDone ==
    /\ pc = "reading"
    /\ pc' = "done"
    /\ UNCHANGED << managerVars, callVars, idx, half, promise, transportVars, log, streamVars >>
    /\ UNCHANGED << utilVars, eventVars >>

\* reader.read() rejects: the promise stream() returned rejects.
ReadError ==
    /\ pc = "reading"
    /\ promise' = RejectedWith(Failure(StreamSrc, "read"))
    /\ pc' = "done"
    /\ UNCHANGED << managerVars, callVars, idx, half, transportVars, log, streamVars >>
    /\ UNCHANGED << utilVars, eventVars >>

\* ------------------------------------------------------------ streamGenerator()

\* const response = await this.request(config); if (!response.data) return;
\* a rejected request() is thrown out of the generator.
GenAwait ==
    /\ pc = "await"
    /\ Ready(promise)
    /\ pc' = IF promise.status = "fulfilled" /\ HasData(promise.value)
             THEN "pulling" ELSE "done"
    /\ UNCHANGED << managerVars, callVars, idx, half, promise, transportVars, log, streamVars >>
    /\ UNCHANGED << utilVars, eventVars >>

\* A loop that skips chunks that decode to nothing.
YieldsNonEmpty(text) == text # << >>

\* Does the loop yield the decoded chunk?
Yields(text) == TRUE

\* reader.read() resolves with a chunk: decode it and yield it; the generator
\* is suspended at the yield until the consumer asks for the next value.
GenChunk(value) ==
    /\ pc = "pulling"
    /\ Len(arrived) < MaxChunks
    /\ arrived' = Append(arrived, value)
    /\ LET d == Decode(pending, value)
       IN /\ pending' = d.pending
          /\ IF Yields(d.text)
             THEN /\ yielded' = Append(yielded, d.text)
                  /\ pc' = "suspended"
             ELSE UNCHANGED << yielded, pc >>
    /\ UNCHANGED << managerVars, callVars, idx, half, promise, transportVars, log,
                    delivered, kept >>
    /\ UNCHANGED << utilVars, eventVars >>

\* The consumer calls next(): the loop goes on to the next reader.read().
GenNext ==
    /\ pc = "suspended"
    /\ pc' = "pulling"
    /\ UNCHANGED << managerVars, callVars, idx, half, promise, transportVars, log, streamVars >>
    /\ UNCHANGED << utilVars, eventVars >>

\* reader.read() resolves with done: the loop breaks and the generator ends.
GenDone ==
    /\ pc = "pulling"
    /\ pc' = "done"
    /\ UNCHANGED << managerVars, callVars, idx, half, promise, transportVars, log, streamVars >>
    /\ UNCHANGED << utilVars, eventVars >>

\* reader.read() rejects: the error is thrown out of the generator.
GenError ==
    /\ pc = "pulling"
    /\ promise' = RejectedWith(Failure(StreamSrc, "read"))
    /\ pc' = "done"
    /\ UNCHANGED << managerVars, callVars, idx, half, transportVars, log, streamVars >>
    /\ UNCHANGED << utilVars, eventVars >>

\* ------------------------------------------------------------ utility

\* A call of safeParseJSON returns.
SafeParse ==
    /\ returned = NotCalled
    /\ returned' = SafeParseJSON(jsonString)
    /\ UNCHANGED << managerVars, pc, callVars, idx, half, promise, transportVars, log,
                    streamVars, jsonString, eventVars >>

\* ------------------------------------------------------------ event-based lazy sequence

\* The payloads of the messages of an event connection: a JSON text and a
\* text that is no JSON.
EventPayloads == {"{members}", "text"}

\* A message is JSON-decoded, falling back to the raw payload.
DecodedMessage(payload) == IF payload = "{members}" THEN "object" ELSE payload

\* A message arrives on the open connection: it is decoded and, on a client
\* without response interceptors, put on the queue at once.
MessageArrives(payload) ==
    /\ connection = "open"
    /\ Len(queued) < MaxMessages
    /\ queue' = Append(queue, DecodedMessage(payload))
    /\ queued' = Append(queued, DecodedMessage(payload))
    /\ UNCHANGED << managerVars, pc, callVars, idx, half, promise, transportVars, log,
                    streamVars, utilVars, connection, sequenceEnded, pulled >>

\* The connection signals an error or a close.
ConnectionCloses ==
    /\ connection = "open"
    /\ connection' = "closed"
    /\ UNCHANGED << managerVars, pc, callVars, idx, half, promise, transportVars, log,
                    streamVars, utilVars, queue, sequenceEnded, queued, pulled >>

\* A pull loop that stops as soon as the connection has closed.
EndsWhenClosed == connection = "closed"

\* The pull loop stops: the connection has signalled error/close and the
\* queue has been drained.
SequenceEnds == connection = "closed" /\ queue = << >>

\* The pull loop finds the queue non-empty and yields its next entry.
PullYield ==
    /\ ~sequenceEnded
    /\ ~SequenceEnds
    /\ queue # << >>
    /\ pulled' = Append(pulled, Head(queue))
    /\ queue' = Tail(queue)
    /\ UNCHANGED << managerVars, pc, callVars, idx, half, promise, transportVars, log,
                    streamVars, utilVars, connection, sequenceEnded, queued >>

\* The pull loop ends the sequence.  (While the queue is empty and the
\* connection open the loop waits and re-checks, which changes nothing.)
PullEnd ==
    /\ ~sequenceEnded
    /\ SequenceEnds
    /\ sequenceEnded' = TRUE
    /\ UNCHANGED << managerVars, pc, callVars, idx, half, promise, transportVars, log,
                    streamVars, utilVars, connection, queue, queued, pulled >>

\* ------------------------------------------------------------ caller

\* The caller takes the outcome of the call, holding on to chunks; the client
\* is ready for the next call.
FinishWith(chunks) ==
    /\ Returned
    /\ pc' = "idle"
    /\ api' = "none"
    /\ config' = NoConfig
    /\ requestInterceptorChain' = << >>
    /\ responseInterceptorChain' = << >>
    /\ idx' = 0
    /\ half' = "then"
    /\ promise' = Resolved(InitialConfig)
    /\ timerArmed' = FALSE
    /\ controllerAborted' = FALSE
    /\ callerAborted' = FALSE
    /\ fetchSignal' = "none"
    /\ abortedBy' = "none"
    /\ fetched' = << >>
    /\ transportResult' = NoResult
    /\ log' = << >>
    /\ staleAtStart' = {}
    /\ arrived' = << >>
    /\ delivered' = << >>
    /\ pending' = FALSE
    /\ passed' = NoConfig
    /\ yielded' = << >>
    /\ kept' = chunks
    /\ UNCHANGED managerVars
    /\ UNCHANGED << utilVars, eventVars >>

\* The caller takes the outcome and keeps what it held before.
Finish == FinishWith(kept)

\* The caller of stream() takes the outcome and keeps, next to the chunks the
\* byte stream delivered, the arguments its callback was invoked with.
Keep ==
    /\ api = "stream"
    /\ FinishWith([arrived |-> arrived, delivered |-> delivered])

\* ------------------------------------------------------------ specification

Next ==
    \/ \E mgr \in Managers, f \in Fulfilled, r \in Rejected : UseInterceptor(mgr, f, r)
    \/ \E mgr \in Managers, id \in 0 .. MaxUse : EjectInterceptor(mgr, id)
    \/ \E cfg \in Configs : Request(cfg)
    \/ \E cfg \in Configs : Stream(cfg)
    \/ ChainThen
    \/ ChainCatch
    \/ TransportStart
    \/ FetchResolve
    \/ FetchFail
    \/ \E outcome \in {"json", "fail", "stream", "null"} : DecodeBody(outcome)
    \/ TimerFire
    \/ CallerAbort
    \/ AbortObserved
    \/ Consume
    \/ \E value \in Chunks : ReadChunk(value)
    \/ ReadDone
    \/ ReadError
    \/ Finish

Spec == Init /\ [][Next]_vars

\* A client on which no interceptor is ever registered.
NextPlain ==
    \/ \E cfg \in Configs : Request(cfg)
    \/ \E cfg \in Configs : Stream(cfg)
    \/ TransportStart
    \/ FetchResolve
    \/ FetchFail
    \/ \E outcome \in {"json", "fail", "stream", "null"} : DecodeBody(outcome)
    \/ TimerFire
    \/ CallerAbort
    \/ AbortObserved
    \/ Consume
    \/ \E value \in Chunks : ReadChunk(value)
    \/ ReadDone
    \/ ReadError
    \/ Finish

\* A client without interceptors whose callers use all three entry points and
\* keep what stream() handed to their callback.
NextStream ==
    \/ \E cfg \in Configs : Request(cfg)
    \/ \E cfg \in Configs : Stream(cfg)
    \/ \E cfg \in Configs : StreamGenerator(cfg)
    \/ TransportStart
    \/ FetchResolve
    \/ FetchFail
    \/ \E outcome \in {"json", "fail", "stream", "null"} : DecodeBody(outcome)
    \/ TimerFire
    \/ CallerAbort
    \/ AbortObserved
    \/ Consume
    \/ \E value \in Chunks : ReadChunk(value)
    \/ ReadDone
    \/ ReadError
    \/ GenAwait
    \/ \E value \in Chunks : GenChunk(value)
    \/ GenNext
    \/ GenDone
    \/ GenError
    \/ Finish
    \/ Keep

StreamSpec == Init /\ [][NextStream]_vars

\* A client without interceptors whose callers make plain requests with every
\* kind of address, method, query parameters and payload.
NextInput ==
    \/ \E cfg \in InputConfigs : Request(cfg)
    \/ TransportStart
    \/ FetchResolve
    \/ FetchFail
    \/ \E outcome \in {"json", "fail"} : DecodeBody(outcome)
    \/ Finish

InputSpec == Init /\ [][NextInput]_vars

\* A program that hands one text, or a value of another type, to safeParseJSON.
JsonInit ==
    /\ ClientInit
    /\ EventInit
    /\ jsonString \in JsonInputs
    /\ returned = NotCalled

JsonSpec == JsonInit /\ [][SafeParse]_vars

\* An event connection and the consumer of its lazy sequence.
NextEvent ==
    \/ \E payload \in EventPayloads : MessageArrives(payload)
    \/ ConnectionCloses
    \/ PullYield
    \/ PullEnd

\* The consumer keeps pulling and the poll timer of the pull loop keeps
\* firing; the server is under no obligation to send or to close.
EventSpec == Init /\ [][NextEvent]_vars /\ WF_vars(PullYield) /\ WF_vars(PullEnd)

\* A client whose callers also register rejection handlers that recover:
\* handlers that return a value instead of rejecting again.
NextRecovering ==
    \/ Next
    \/ \E mgr \in Managers, f \in Fulfilled : UseInterceptor(mgr, f, "pass")

RecoveringSpec == Init /\ [][NextRecovering]_vars

\* A client whose callers register fulfilment handlers only, synchronous
\* and async ones, and make plain requests.
NextAsync ==
    \/ \E mgr \in Managers, f \in {"pass", "later"} : UseInterceptor(mgr, f, "none")
    \/ \E cfg \in Configs : Request(cfg)
    \/ ChainThen
    \/ ChainCatch
    \/ HandlerSettles
    \/ TransportStart
    \/ FetchResolve
    \/ FetchFail
    \/ \E outcome \in {"json", "fail"} : DecodeBody(outcome)
    \/ TimerFire
    \/ CallerAbort
    \/ AbortObserved
    \/ Finish

AsyncSpec == Init /\ [][NextAsync]_vars

\* A program that only registers interceptors, with handlers of every kind,
\* and ejects them.
NextManagers ==
    \/ \E mgr \in Managers, f \in Fulfilled \cup {"later"}, r \in Rejected \cup {"pass"} :
          UseInterceptor(mgr, f, r)
    \/ \E mgr \in Managers, id \in 0 .. MaxUse : EjectInterceptor(mgr, id)

ManagerSpec == Init /\ [][NextManagers]_vars

\* The event loop runs every promise reaction that is ready and fires every
\* timer that is due; callers and the network are under no obligation.
Fairness ==
    /\ WF_vars(TransportStart)
    /\ WF_vars(TimerFire)
    /\ WF_vars(AbortObserved)
    /\ WF_vars(Consume)

FairSpec == Init /\ [][NextPlain]_vars /\ Fairness

\* ------------------------------------------------------------ properties

IsFulfilment(e, mgr) == e.mgr = mgr /\ e.slot = "fulfilled"

\* The producer a handler invocation stands for.
SrcOf(e) == Src(e.mgr, e.id, e.slot)

\* C1 (as stated): the fulfilment handlers of the request interceptors are
\* invoked in registration order, the k-th registered before the (k+1)-th, and
\* the later-registered one receives the configuration the earlier one returned.
C1_RegistrationOrder ==
    \A i, j \in DOMAIN log :
        (i < j /\ IsFulfilment(log[i], "request") /\ IsFulfilment(log[j], "request")
               /\ log[i].id # log[j].id)
        => /\ log[i].id < log[j].id
           /\ (j = i + 1 => log[j].arg.by = SrcOf(log[i]))

\* C1 (amended): the fulfilment handlers of the request interceptors are
\* invoked in reverse registration order, the (k+1)-th registered before the
\* k-th; the first function the chain invokes receives the initial
\* configuration of the call and every later one receives what the function
\* invoked immediately before it produced or passed on.
C1_ReverseRegistrationOrder ==
    /\ \A i, j \in DOMAIN log :
        (i < j /\ IsFulfilment(log[i], "request") /\ IsFulfilment(log[j], "request"))
        => log[i].id >= log[j].id
    /\ \A j \in DOMAIN log :
        log[j].mgr = "request"
        => IF j = 1 THEN log[j].arg = InitialConfig
           ELSE log[j].arg.by \in {SrcOf(log[j - 1]), log[j - 1].arg.by}

\* Two request interceptors ran their fulfilment handlers on the configuration,
\* the second registered first, handing its result to the first registered.
C1_Witness ==
    \E i, j \in DOMAIN log :
        /\ i < j
        /\ IsFulfilment(log[i], "request") /\ log[i].id = 1 /\ log[i].on = "then"
        /\ IsFulfilment(log[j], "request") /\ log[j].id = 0 /\ log[j].on = "then"
        /\ log[j].arg.by = SrcOf(log[i])

IsTransportFailure(v) == v.kind = "error" /\ v.by = TransportSrc

ResponseChainDone == pc \in {"consume", "reading", "done"}

\* The positions of the functions (not undefined) in a chain.
Functions(chain) == {k \in DOMAIN chain : chain[k].fn # "none"}

\* The first function of a chain that has one.
FirstFunction(chain) ==
    chain[CHOOSE k \in Functions(chain) : \A m \in Functions(chain) : k <= m]

ChainOf(e) == IF e.mgr = "request" THEN requestInterceptorChain ELSE responseInterceptorChain

PosOf(e) == CHOOSE k \in DOMAIN ChainOf(e) : SrcOf(ChainOf(e)[k]) = SrcOf(e)

\* This invocation is a request fulfilment handler raising on the configuration,
\* with no rejection handler after it in the request chain.
RaisedUnhandled(e) ==
    /\ IsFulfilment(e, "request")
    /\ e.on = "then"
    /\ ChainOf(e)[PosOf(e)].fn = "raise"
    /\ \A k \in DOMAIN requestInterceptorChain :
          (k > PosOf(e) /\ requestInterceptorChain[k].slot = "rejected")
          => requestInterceptorChain[k].fn = "none"

\* C3: a failure raised by a request fulfilment handler goes to rejection
\* handlers only: no fulfilment handler of the request chain, the one that
\* raised included, is invoked with the failure; and when no rejection handler
\* follows in the chain the transport call is not performed and the call
\* rejects with that failure.
C3_FailureToRejectionHandlersOnly ==
    /\ \A i \in DOMAIN log :
          IsFulfilment(log[i], "request") => log[i].on = "then"
    /\ \A i \in DOMAIN log :
          (pc = "done" /\ api = "request" /\ RaisedUnhandled(log[i]))
          => /\ fetched = << >>
             /\ Functions(responseInterceptorChain) = {}
                => promise = RejectedWith(Failure(SrcOf(log[i]), "raised"))

\* C4: request() resolves only with an envelope built from a completed
\* transport response; when the transport call failed and no rejection handler
\* ran after it, the call rejects with that failure; the transport call is made
\* at most once.
C4_ResolvesOnlyWithEnvelope ==
    /\ Len(fetched) <= 1
    /\ (pc = "done" /\ api = "request" /\ promise.status = "fulfilled")
       => /\ promise.value.kind = "envelope"
          /\ transportResult.status = "fulfilled"
    /\ (pc = "done" /\ api = "request" /\ transportResult.status = "rejected"
          /\ \A k \in DOMAIN responseInterceptorChain :
                responseInterceptorChain[k].slot = "rejected"
                => responseInterceptorChain[k].fn = "none")
       => promise = transportResult

\* C5 (as stated): once eject(id) has returned, no step of any call invokes a
\* handler of that interceptor.
C5_NeverInvokedAfterEject ==
    [][Len(log') > Len(log)
        => << log'[Len(log')].mgr, log'[Len(log')].id >> \notin ejected]_vars

\* C5 (amended): once eject(id) has returned, no call started after the
\* ejection invokes a handler of that interceptor; a call that was started
\* before the ejection keeps the handlers it was started with.
C5_NotInvokedByLaterCalls ==
    \A i \in DOMAIN log : << log[i].mgr, log[i].id >> \notin staleAtStart

\* A call started after an ejection from the request manager has run a
\* request handler that was not ejected.
C5_Witness ==
    /\ \E id \in 0 .. MaxUse : << "request", id >> \in staleAtStart
    /\ \E i \in DOMAIN log : log[i].mgr = "request"

\* C6: a rejection handler is invoked only with a failure and a fulfilment
\* handler only with the value of a chain that is progressing successfully.
C6_HandlersMatchProgress ==
    \A i \in DOMAIN log :
        /\ log[i].slot = "rejected" => (log[i].on = "catch" /\ log[i].arg.kind = "error")
        /\ log[i].slot = "fulfilled" => (log[i].on = "then" /\ log[i].arg.kind # "error")

\* C7: the failure of a cancelled call says 'due to timeout' only when the
\* timeout timer was the source of the cancellation.
C7_TimeoutMessageOnlyForTimer ==
    (transportResult.status = "rejected"
       /\ transportResult.value.msg = "Request aborted due to timeout")
    => abortedBy = "timer"

\* A request() with a timeout, no token of the caller and no interceptors is
\* waiting for fetch.
TimeoutCallPending ==
    /\ pc = "fetching"
    /\ api = "request"
    /\ config.timeout # 0
    /\ ~config.signal
    /\ requestInterceptorChain = << >>
    /\ responseInterceptorChain = << >>

\* The call has rejected with the failure attributed to the timeout.
TimedOut ==
    /\ pc = "done"
    /\ promise = RejectedWith(Failure(TransportSrc, "Request aborted due to timeout"))
    /\ abortedBy = "timer"

\* The transport answered: fetch resolved or failed on its own.
TransportAnswered ==
    \/ pc = "decoding"
    \/ transportResult = RejectedWith(Failure(TransportSrc, "network"))

\* C8: a request() with a timeout, no token of the caller and no interceptors
\* whose transport call gets no answer eventually rejects with the failure
\* attributed to the timeout, the timer having aborted the call; and whenever
\* the configuration that reaches the transport step carries a token of the
\* caller, that token is the one fetch observes.
C8_TimeoutEventuallyRejects ==
    /\ [](((pc \in {"fetching", "decoding"}) /\ config.signal /\ promise.value.kind = "config")
            => fetchSignal = "caller")
    /\ (TimeoutCallPending ~> (TimedOut \/ TransportAnswered))

\* A call without interceptors and without a token of the caller was aborted
\* by its timer and rejected.
C8_Witness ==
    /\ TimedOut
    /\ api = "request"
    /\ ~config.signal
    /\ requestInterceptorChain = << >>
    /\ responseInterceptorChain = << >>

\* C9: a call whose configuration has no address fails, with or without query
\* parameters, without invoking an interceptor and without a transport call.
C9_AbsentAddressFails ==
    (api # "none" /\ ~config.url)
    => /\ log = << >>
       /\ fetched = << >>
       /\ pc = "done" => promise.status = "rejected"

\* The texts the decoder yields for a sequence of chunks, decoded one by one
\* from a fresh decoder.
RECURSIVE DecodedFrom(_, _)
DecodedFrom(pend, chunks) ==
    IF chunks = << >> THEN << >>
    ELSE << Decode(pend, Head(chunks)).text >>
         \o DecodedFrom(Decode(pend, Head(chunks)).pending, Tail(chunks))

\* stream() has resolved after reading the response byte stream to its end.
StreamCompleted ==
    /\ api = "stream"
    /\ pc = "done"
    /\ promise.status = "fulfilled"
    /\ HasData(promise.value)

\* C10: when stream() resolves after the byte stream has signalled completion,
\* the callback has been invoked exactly once for every chunk read, in the
\* order of arrival, and the promise resolves with the envelope request()
\* delivered: the one built from the transport response when no response
\* interceptor is registered.
C10_EveryChunkOnceInOrder ==
    StreamCompleted
    => /\ Len(delivered) = Len(arrived)
       /\ delivered = DecodedFrom(FALSE, arrived)
       /\ promise.value.kind = "envelope"
       /\ promise.value.data = "stream"
       /\ responseInterceptorChain = << >> => promise = transportResult

\* stream() resolved after two chunks, the first of which decoded to nothing
\* because it ended inside a character.
C10_Witness ==
    /\ StreamCompleted
    /\ Len(arrived) = 2
    /\ delivered = << << >>, << "e'", "a" >> >>

\* The generator has been started and it is at rest: suspended at a yield or ended.
GeneratorAtRest == api = "generator" /\ pc \in {"suspended", "done"}

\* C11: for the same response byte stream, the sequence of values
\* streamGenerator() yields equals, in the same order, the sequence of
\* arguments stream() passed to its callback; the generator ends only when the
\* byte stream ends (or fails), and it yields nothing when the request fails
\* or the response has no body.
C11_GeneratorYieldsWhatStreamDelivers ==
    api = "generator"
    => /\ kept.arrived = arrived => yielded = kept.delivered
       /\ (pc = "done" /\ ~(promise.status = "fulfilled" /\ HasData(promise.value))
              /\ promise.value.by # StreamSrc)
          => yielded = << >>
       /\ Len(yielded) <= Len(arrived)
       /\ pc = "suspended" => Len(yielded) = Len(arrived)

\* The generator ended after yielding, for two chunks of which the first ends
\* inside a character, the very arguments the callback of an earlier stream()
\* call was given for those two chunks.
C11_Witness ==
    /\ GeneratorAtRest
    /\ pc = "done"
    /\ promise.status = "fulfilled"
    /\ kept.arrived = arrived
    /\ Len(arrived) = 2
    /\ yielded = << << >>, << "e'", "a" >> >>
    /\ yielded = kept.delivered

\* C12: a call of request(), stream() or streamGenerator() leaves the caller's
\* configuration object as it was: every field, responseType included, holds
\* the value the caller gave it.
C12_CallerConfigUntouched ==
    api # "none" => config = passed

\* The identifiers of a sequence of forEach visits.
RECURSIVE IdsOf(_)
IdsOf(visits) == IF visits = << >> THEN << >> ELSE << Head(visits).id >> \o IdsOf(Tail(visits))

\* The identifiers of seq that eject() was never called with, in the order of seq.
RECURSIVE NeverEjected(_, _)
NeverEjected(mgr, seq) ==
    IF seq = << >> THEN << >>
    ELSE IF << mgr, Head(seq) >> \in ejected
         THEN NeverEjected(mgr, Tail(seq))
         ELSE << Head(seq) >> \o NeverEjected(mgr, Tail(seq))

\* C13: after any sequence of use() and eject() calls no identifier has been
\* issued twice by a manager, identifiers of ejected interceptors included,
\* and every interceptor still registered sits in the slot its identifier
\* names: neither use() nor eject() moves or changes another slot.
C13_IdentifiersUniqueAndStable ==
    [][\A mgr \in Managers :
         LET before == Handlers(mgr)
             after == Handlers(mgr)'
         IN /\ \A i, j \in DOMAIN issued'[mgr] :
                   i # j => issued'[mgr][i] # issued'[mgr][j]
            /\ Len(after) >= Len(before)
            /\ Len(issued'[mgr]) = Len(after)
            /\ \A k \in DOMAIN before : after[k] = before[k] \/ after[k] = Null
            /\ ejected' = ejected
               => \A k \in DOMAIN before : after[k] = before[k]
            /\ \A k \in DOMAIN before :
                   (after[k] # before[k]) => << mgr, k - 1 >> \in ejected'
            /\ Cardinality({k \in DOMAIN before : after[k] # before[k]}) <= 1
      ]_vars

\* A manager has issued two identifiers and the first of its two interceptors
\* has been ejected, while the second is still registered in its own slot.
C13_Witness ==
    \E mgr \in Managers :
        /\ issued[mgr] = << 0, 1 >>
        /\ << mgr, 0 >> \in ejected
        /\ Handlers(mgr)[1] = Null
        /\ Handlers(mgr)[2] # Null

\* C14: eject(id) is idempotent and total: for an identifier already ejected
\* or never issued it leaves the manager as it is, and a second eject(id)
\* changes nothing the first did not; forEach visits exactly the interceptors
\* registered and never ejected, in registration order.
C14_EjectIdempotentForEachExact ==
    \A mgr \in Managers :
        /\ \A id \in 0 .. MaxUse + 1 :
               /\ Eject(Eject(Handlers(mgr), id), id) = Eject(Handlers(mgr), id)
               /\ (id >= Len(Handlers(mgr)) \/ << mgr, id >> \in ejected)
                  => Eject(Handlers(mgr), id) = Handlers(mgr)
               /\ Len(Eject(Handlers(mgr), id)) = Len(Handlers(mgr))
        /\ IdsOf(ForEach(Handlers(mgr))) = NeverEjected(mgr, issued[mgr])
        /\ \A i \in DOMAIN ForEach(Handlers(mgr)) :
               ForEach(Handlers(mgr))[i].handler
                   = Handlers(mgr)[ForEach(Handlers(mgr))[i].id + 1]

\* Of two interceptors registered on one manager the second has been ejected,
\* and forEach visits the first one only.
C14_Witness ==
    \E mgr \in Managers :
        /\ Len(issued[mgr]) = 2
        /\ << mgr, 1 >> \in ejected
        /\ IdsOf(ForEach(Handlers(mgr))) = << 0 >>
        /\ Eject(Handlers(mgr), 1) = Handlers(mgr)

\* The segments of str between occurrences of the separator c.
RECURSIVE SplitFrom(_, _, _)
SplitFrom(str, c, cur) ==
    IF str = << >> THEN << cur >>
    ELSE IF Head(str) = c
         THEN << cur >> \o SplitFrom(Tail(str), c, << >>)
         ELSE SplitFrom(Tail(str), c, Append(cur, Head(str)))

Split(str, c) == IF str = << >> THEN << >> ELSE SplitFrom(str, c, << >>)

\* What a server reads back from an encoded component.
DecodeChar(c) ==
    CASE c = "%3F" -> "?"
      [] c = "%26" -> "&"
      [] c = "%3D" -> "="
      [] c = "%20" -> " "
      [] OTHER -> c

DecodeURIComponent(str) == [i \in DOMAIN str |-> DecodeChar(str[i])]

\* The key and the value a server reads from one key=value segment.
ParsedEntry(segment) ==
    LET parts == SplitFrom(segment, "=", << >>)
    IN [key |-> DecodeURIComponent(parts[1]),
        value |-> IF Len(parts) >= 2 THEN DecodeURIComponent(parts[2]) ELSE << >>]

\* The parameters a server reads from a query string.
ParsedQuery(str) == [i \in DOMAIN Split(str, "&") |-> ParsedEntry(Split(str, "&")[i])]

\* url is the address followed by '&' when the address holds a '?' and by '?'
\* otherwise, followed by the entries as encoded key=value joined by '&'.
WithQuery(url, address, entries) ==
    LET n == Len(address)
    IN /\ Len(url) > n
       /\ SubSeq(url, 1, n) = address
       /\ url[n + 1] = (IF Includes(address, "?") THEN "&" ELSE "?")
       /\ ParsedQuery(SubSeq(url, n + 2, Len(url))) = entries
       /\ \A i \in n + 2 .. Len(url) : url[i] \notin {"?", " "}

\* The transport call of a call with an address whose configuration reached
\* the transport step as request() built it.
TransportCalls ==
    IF passed.url /\ requestInterceptorChain = << >> THEN DOMAIN fetched ELSE {}

\* C15 (as stated): the address handed to the transport is the configured
\* address unchanged when the method is not GET or no query parameters are
\* given; when the method is GET and parameters are given, it is the address
\* followed by '&' or '?' and the URL-encoded key=value pairs joined by '&'.
C15_QueryOnlyForGet ==
    \A i \in TransportCalls :
        IF passed.method = "GET" /\ passed.params
        THEN WithQuery(fetched[i].url, passed.address, passed.query)
        ELSE fetched[i].url = passed.address

\* C15 (amended): the address handed to the transport is the configured
\* address unchanged when no query parameters are given; when parameters are
\* given, whatever the method, it is the address followed by '&' (if the
\* address contains '?') or '?' and every parameter as URL-encoded key=value
\* joined by '&'.
C15_QueryForEveryMethod ==
    \A i \in TransportCalls :
        IF passed.params
        THEN WithQuery(fetched[i].url, passed.address, passed.query)
        ELSE fetched[i].url = passed.address

\* A POST with two parameters, one with reserved characters in key and value,
\* to an address that has a query string has reached the transport.
C15_Witness ==
    /\ TransportCalls # {}
    /\ passed.method = "POST"
    /\ passed.params
    /\ Len(passed.query) = 2
    /\ passed.query[1] = [key |-> << "k", "&" >>, value |-> << "?", "=", " " >>]
    /\ Includes(passed.address, "?")
    /\ fetched[1].url = << "a", "?", "b", "&", "k", "%26", "=", "%3F", "%3D", "%20",
                           "&", "k", "=", "v" >>

\* C16: a body payload that is a FormData, a Blob, an ArrayBuffer or a string
\* is handed to the transport unchanged and no content-type header is set for
\* it; only a structured value is serialized to JSON and sent with the
\* content-type application/json.
C16_RawPayloadsPassUnchanged ==
    \A i \in TransportCalls :
        /\ passed.data \in {"FormData", "Blob", "ArrayBuffer", "string"}
           => /\ fetched[i].body = passed.data
              /\ fetched[i].contentType = "none"
        /\ passed.data = "object"
           => /\ fetched[i].body = Stringify(passed.data)
              /\ fetched[i].contentType = "application/json"
        /\ fetched[i].contentType = "application/json" => passed.data = "object"

\* The text is a well-formed JSON object or array.
WellFormedObjectOrArray(input) ==
    /\ input.type = "string"
    /\ JsonParse(input.text).ok
    /\ JsonParse(input.text).value.type \in {"object", "array"}

\* C17: safeParseJSON never raises; it returns the parsed value for every
\* text that is a well-formed JSON object or array, and the fallback when the
\* input is not a string, is empty, is not object/array shaped or fails to
\* parse.
C17_ParsesEveryObjectAndArray ==
    returned # NotCalled
    => IF WellFormedObjectOrArray(jsonString)
       THEN returned = [kind |-> "value", value |-> JsonParse(jsonString.text).value]
       ELSE returned = DefaultValue

IsResponseFulfilment(e) == IsFulfilment(e, "response")

\* request() has succeeded: the transport step produced an envelope and the
\* promise request() returned is fulfilled with an envelope.
RequestSucceeded ==
    /\ api = "request"
    /\ pc = "done"
    /\ transportResult.status = "fulfilled"
    /\ promise.status = "fulfilled"
    /\ promise.value.kind = "envelope"

\* C19: for every request() that succeeds, the fulfilment handlers of the
\* response interceptors are invoked in registration order, each of them
\* once; the first receives the envelope built from the transport response
\* and every later one the envelope the previous one returned.
C19_ResponseFulfilmentsChained ==
    RequestSucceeded
    => LET invoked == SelectSeq(log, IsResponseFulfilment)
       IN /\ 2 * Len(invoked) = Len(responseInterceptorChain)
          /\ \A i, j \in DOMAIN invoked : i < j => invoked[i].id < invoked[j].id
          /\ invoked # << >> => invoked[1].arg = transportResult.value
          /\ \A i \in 2 .. Len(invoked) :
                 /\ invoked[i].arg.kind = "envelope"
                 /\ invoked[i].arg.by = SrcOf(invoked[i - 1])

\* A handler has been invoked and the promise it returned has not settled.
HandlerRunning == promise.status = "pending"

\* The transport step has called fetch and has not settled.
TransportRunning == pc \in {"fetching", "decoding"}

\* C20: within one request() no two pipeline steps overlap: a handler starts
\* only when no handler is still running, its asynchronous completion
\* included, and the transport step is not running; the transport call starts
\* only after every request interceptor has completed; and a response
\* interceptor starts only after the transport call and the decoding of the
\* body have completed.
C20_StepsDoNotOverlap ==
    [][/\ Len(log') > Len(log)
          => /\ ~HandlerRunning
             /\ ~TransportRunning
             /\ log'[Len(log')].mgr = "response"
                => (pc = "res" /\ (fetched # << >> => transportResult # NoResult))
             /\ log'[Len(log')].mgr = "request" => fetched = << >>
       /\ Len(fetched') > Len(fetched)
          => /\ ~HandlerRunning
             /\ pc = "transport"
             /\ \A i \in DOMAIN requestInterceptorChain :
                    requestInterceptorChain[i].fn # "none"
                    => \E k \in DOMAIN log :
                          /\ log[k].mgr = "request"
                          /\ log[k].id = requestInterceptorChain[i].id
      ]_vars

\* A request has resolved after an async request handler and an async
\* response handler have each been invoked and have completed around the
\* transport call.
C20_Witness ==
    /\ RequestSucceeded
    /\ Len(requestInterceptorChain) = 2
    /\ requestInterceptorChain[1].fn = "later"
    /\ Len(responseInterceptorChain) = 2
    /\ responseInterceptorChain[1].fn = "later"
    /\ Len(log) = 2
    /\ Len(fetched) = 1
    /\ promise.value.by = Src("response", 0, "fulfilled")

====
